---- MODULE Spec2Model ----
(***************************************************************************)
(* Lineage evidence ingestion and graph traversal of snowsarva.            *)
(*                                                                         *)
(* The graph store is the pair of tables lineage_nodes / lineage_edges.    *)
(* store_lineage_data (backend/src/lineage_parser.py) writes them, the     *)
(* endpoints lineage_object / lineage_impact (backend/src/snowpark.py) and *)
(* get_object_lineage read them.                                           *)
(*                                                                         *)
(* Text the code concatenates, compares or upper-cases (identifier parts,  *)
(* object ids, edge endpoints) is a sequence of one-character strings.     *)
(* Text the code only copies from a fixed literal (lineage_source, edge    *)
(* kind, extraction method) is a TLA+ string.                              *)
(***************************************************************************)
EXTENDS Integers, Sequences, FiniteSets, Bags, TLC

VARIABLES nodes,     \* table lineage_nodes: a set of rows
          edges,     \* table lineage_edges: a bag of rows (edge_id is a fresh uuid4,
                     \* so equal rows are distinct rows: multiplicity)
          now,       \* CURRENT_TIMESTAMP() of the warehouse
          trav,      \* the request a traversal endpoint is serving, and its response
          clg,       \* table LINEAGE.COLUMN_LINEAGE_GRAPH, read by the path query: a set
                     \* of rows
          ing        \* the calls of store_lineage_data that run side by side, each with
                     \* the position of its next statement

vars == <<nodes, edges, now, trav, clg, ing>>

----------------------------------------------------------------------------
(* Bounds of the model *)

MaxClock == 1        \* CURRENT_TIMESTAMP() takes the values 0..MaxClock
MaxNodeRows == 2     \* rows of lineage_nodes
MaxEdgeRows == 2     \* rows of lineage_edges (ingestion specification)
MaxBatchNodes == 1   \* node records of one evidence batch
MaxBatchEdges == 1   \* edge records of one evidence batch
MaxManifest == 1     \* records of one uploaded manifest

----------------------------------------------------------------------------
(* Python values and strings *)

Str(s) == [k |-> "str", v |-> s]
None == [k |-> "none", v |-> <<>>]
Absent == [k |-> "absent", v |-> <<>>]      \* the key is not in the dict

\* dict.get(key, default)
Get(val, default) == IF val.k = "absent" THEN default ELSE val

\* dict.get(key): the default is None
GetOrNone(val) == Get(val, None)

\* truth value of a Python value: None and '' are false
Truthy(val) == val.k = "str" /\ val.v # <<>>

\* "{val}" inside an f-string: None prints as 'None'
Fmt(val) == IF val.k = "none" THEN <<"N", "o", "n", "e">> ELSE val.v

Dot == <<".">>
EmptyStr == Str(<<>>)

\* the literals the code interpolates as text
TABLE == <<"T", "A", "B", "L", "E">>
COLUMN == <<"C", "O", "L", "U", "M", "N">>
DBT_MODEL == <<"D", "B", "T", "_", "M", "O", "D", "E", "L">>

LowerCase == <<"a", "b", "c", "d", "e", "m", "n", "o", "q", "s", "t", "x">>
UpperCase == <<"A", "B", "C", "D", "E", "M", "N", "O", "Q", "S", "T", "X">>

UpperChar(c) ==
    IF \E i \in DOMAIN LowerCase : LowerCase[i] = c
    THEN UpperCase[CHOOSE i \in DOMAIN LowerCase : LowerCase[i] = c]
    ELSE c

\* str.upper() / UPPER()
Upper(s) == [i \in DOMAIN s |-> UpperChar(s[i])]

\* s[:n]
Truncate(s, n) == IF Len(s) <= n THEN s ELSE SubSeq(s, 1, n)

DigitChars == <<"0", "1", "2", "3", "4", "5", "6", "7", "8", "9">>
IsDigit(c) == \E i \in DOMAIN DigitChars : DigitChars[i] = c
DigitValue(c) == (CHOOSE i \in DOMAIN DigitChars : DigitChars[i] = c) - 1

\* int(s) does not raise: an optional sign and at least one digit
IsInt(s) ==
    LET body == IF s # <<>> /\ s[1] \in {"-", "+"} THEN Tail(s) ELSE s
    IN body # <<>> /\ \A i \in DOMAIN body : IsDigit(body[i])

RECURSIVE DigitsValue(_)
DigitsValue(s) ==
    IF s = <<>> THEN 0
    ELSE DigitsValue(SubSeq(s, 1, Len(s) - 1)) * 10 + DigitValue(s[Len(s)])

\* int(s)
ToInt(s) ==
    IF s[1] = "-" THEN 0 - DigitsValue(Tail(s))
    ELSE IF s[1] = "+" THEN DigitsValue(Tail(s))
    ELSE DigitsValue(s)

\* a single quote inside an interpolated value ends the SQL literal early:
\* session.sql(...).collect() raises
HasQuote(s) == \E i \in DOMAIN s : s[i] = "'"

----------------------------------------------------------------------------
(* Tables as bags of rows *)

Rows(tbl) == BagToSet(tbl)

\* the rows of bag tbl that satisfy Keep: a WHERE clause
Where(tbl, Keep(_)) == [r \in {x \in DOMAIN tbl : Keep(x)} |-> tbl[r]]

\* the number of rows of bag tbl that satisfy Keep
CountWhere(tbl, Keep(_)) == BagCardinality(Where(tbl, Keep))

\* the bag of F(r) for the rows r of bag tbl: a SELECT list
MapBag(tbl, F(_)) ==
    [x \in {F(r) : r \in DOMAIN tbl} |->
        LET Same(r) == F(r) = x IN CountWhere(tbl, Same)]

Max2(a, b) == IF a >= b THEN a ELSE b

\* the elements of a list, and the list as a bag
Range(s) == {s[i] : i \in DOMAIN s}
SeqToBag(s) == [x \in Range(s) |-> Cardinality({i \in DOMAIN s : s[i] = x})]

----------------------------------------------------------------------------
(* store_lineage_data: nodes *)

\* lineage_parser.py 126-130
ObjectIdOf(node) ==
    LET base == Fmt(Get(node.database, EmptyStr)) \o Dot
                \o Fmt(Get(node.schema, EmptyStr)) \o Dot
                \o Fmt(Get(node.table, EmptyStr))
    IN IF Truthy(GetOrNone(node.column))
       THEN base \o Dot \o Fmt(node.column)
       ELSE base

\* lineage_parser.py 133-138
NodeMetadata(data, node, source) ==
    [extraction_method |-> Get(data.extraction_method, Str(source)).v,
     query_id |-> GetOrNone(node.query_id),
     user_name |-> GetOrNone(node.user_name),
     observed_at |-> IF Truthy(GetOrNone(node.observed_at))
                     THEN node.observed_at ELSE None]

\* the row the USING (SELECT ...) clause of the MERGE builds, 143-156
NodeSourceRow(data, node, source, ts) ==
    [object_id |-> ObjectIdOf(node),
     object_name |-> Fmt(Get(node.table, EmptyStr)),
     object_type |-> TABLE,
     schema_name |-> Fmt(Get(node.schema, EmptyStr)),
     database_name |-> Fmt(Get(node.database, EmptyStr)),
     column_name |-> IF Truthy(Get(node.column, EmptyStr))
                     THEN Fmt(node.column) ELSE <<>>,
     node_type |-> Fmt(Get(node.node_type, Str(TABLE))),
     lineage_source |-> source,
     metadata |-> NodeMetadata(data, node, source),
     first_seen_ts |-> ts,
     last_seen_ts |-> ts]

\* the statement raises: the except clause of 175-177 skips the record
NodeStmtFails(row) ==
    \/ HasQuote(row.object_id)
    \/ HasQuote(row.node_type)

\* a MERGE that matches on the provenance as well as on the id
MergeMatches_IdAndSource(target, src) ==
    target.object_id = src.object_id /\ target.lineage_source = src.lineage_source

\* ON target.object_id = source.object_id
MergeMatches(target, src) == target.object_id = src.object_id

\* an update that rewrites the whole row from the source row
MergeUpdate_WholeRow(target, src) == src

\* an update that leaves the stored metadata alone
MergeUpdate_LastSeenOnly(target, src) ==
    [target EXCEPT !.last_seen_ts = src.last_seen_ts]

\* WHEN MATCHED THEN UPDATE SET last_seen_ts, metadata (updated_at follows last_seen_ts)
MergeUpdate(target, src) ==
    [target EXCEPT !.last_seen_ts = src.last_seen_ts,
                   !.metadata = src.metadata]

\* a write that overwrites the table with the source row
MergeNode_Overwrite(tbl, src) == {src}

\* MERGE INTO v1.lineage_nodes, 141-172
MergeNode(tbl, src) ==
    IF \E t \in tbl : MergeMatches(t, src)
    THEN {IF MergeMatches(t, src) THEN MergeUpdate(t, src) ELSE t : t \in tbl}
    ELSE tbl \cup {src}

\* the node loop, 124-177: [tbl, stored]
RECURSIVE StoreNodes(_, _, _, _, _)
StoreNodes(tbl, data, list, source, ts) ==
    IF list = <<>> THEN [tbl |-> tbl, stored |-> 0]
    ELSE LET row == NodeSourceRow(data, Head(list), source, ts)
             failed == NodeStmtFails(row)
             rest == StoreNodes(IF failed THEN tbl ELSE MergeNode(tbl, row),
                                data, Tail(list), source, ts)
         IN [tbl |-> rest.tbl,
             stored |-> rest.stored + (IF failed THEN 0 ELSE 1)]

----------------------------------------------------------------------------
(* store_lineage_data: edges *)

ConfidenceOne == 10      \* the literal 1.0 of the INSERT, in tenths
SqlTextColumnLen == 500  \* sql_text[:500] of the INSERT
SqlTextMetaLen == 1000   \* sql_text[:1000] of the metadata

\* lineage_parser.py 185-191
EdgeMetadata(data, edge, source) ==
    [extraction_method |-> Get(data.extraction_method, Str(source)).v,
     query_id |-> GetOrNone(edge.query_id),
     user_name |-> GetOrNone(edge.user_name),
     observed_at |-> IF Truthy(GetOrNone(edge.observed_at))
                     THEN edge.observed_at ELSE None,
     sql_text |-> Truncate(Get(data.sql_text, EmptyStr).v, SqlTextMetaLen)]

\* an INSERT that stores the confidence the evidence record carries
StoredConfidence_OfRecord(edge) ==
    IF edge.confidence.k = "num" THEN edge.confidence.v ELSE ConfidenceOne

\* the confidence the INSERT stores: the literal of line 204, whatever the record says
StoredConfidence(edge) == ConfidenceOne

\* the VALUES (...) row of the INSERT, 194-210
EdgeRow(data, edge, source, ts) ==
    [src_object_id |-> Fmt(edge.source),
     tgt_object_id |-> Fmt(edge.target),
     edge_kind |-> Get(edge.edge_type, Str("LINEAGE")).v,
     observed_ts |-> ts,
     confidence_score |-> StoredConfidence(edge),
     lineage_source |-> source,
     sql_text |-> Truncate(Get(data.sql_text, EmptyStr).v, SqlTextColumnLen),
     metadata |-> EdgeMetadata(data, edge, source)]

\* edge['source'] / edge['target'] raise KeyError on a missing key, and a quote
\* breaks the statement: the except clause of 215-217 skips the record
EdgeStmtFails(data, edge) ==
    \/ edge.source.k = "absent"
    \/ edge.target.k = "absent"
    \/ HasQuote(Fmt(edge.source))
    \/ HasQuote(Fmt(edge.target))
    \/ HasQuote(Get(data.sql_text, EmptyStr).v)

\* an INSERT that is skipped when the table holds the row's triple already
InsertEdge_UnlessKnown(tbl, row) ==
    IF \E r \in DOMAIN tbl : /\ r.src_object_id = row.src_object_id
                             /\ r.tgt_object_id = row.tgt_object_id
                             /\ r.edge_kind = row.edge_kind
    THEN tbl
    ELSE tbl (+) SetToBag({row})

\* INSERT INTO v1.lineage_edges, 194-212: always a new row
InsertEdge(tbl, row) == tbl (+) SetToBag({row})

\* the edge loop, 180-217: [tbl, stored]
RECURSIVE StoreEdges(_, _, _, _, _)
StoreEdges(tbl, data, list, source, ts) ==
    IF list = <<>> THEN [tbl |-> tbl, stored |-> 0]
    ELSE LET failed == EdgeStmtFails(data, Head(list))
             rest == StoreEdges(IF failed THEN tbl
                                ELSE InsertEdge(tbl, EdgeRow(data, Head(list), source, ts)),
                                data, Tail(list), source, ts)
         IN [tbl |-> rest.tbl,
             stored |-> rest.stored + (IF failed THEN 0 ELSE 1)]

\* store_lineage_data, 117-227: the tables afterwards and the result dict
StoreLineageData(ntbl, etbl, data, source, ts) ==
    LET n == StoreNodes(ntbl, data, data.nodes, source, ts)
        e == StoreEdges(etbl, data, data.edges, source, ts)
    IN [nodes |-> n.tbl,
        edges |-> e.tbl,
        result |-> [status |-> "success", nodes_stored |-> n.stored,
                    edges_stored |-> e.stored, source |-> source]]

----------------------------------------------------------------------------
(* The callers of store_lineage_data *)

\* analyze_query_history_lineage, lineage_parser.py 98-107: every node and edge of a
\* query's result gets the query's id, user and start time
EnrichRecord(rec, row) ==
    [rec EXCEPT !.query_id = row.query_id,
                !.user_name = row.user_name,
                !.observed_at = row.start_time]

\* the all_lineage dict of analyze_query_history_lineage, 86-112, for one query row:
\* it has no extraction_method and no sql_text key
QueryHistoryResult(result, row) ==
    [nodes |-> [i \in DOMAIN result.nodes |-> EnrichRecord(result.nodes[i], row)],
     edges |-> [i \in DOMAIN result.edges |-> EnrichRecord(result.edges[i], row)],
     extraction_method |-> Absent,
     sql_text |-> Absent]

\* process_manifest_json, 319-334: the node dict of a model. Its table is under the
\* key 'table_name'; the keys 'table', 'column' and the query context are not set
ManifestNodeDict(rec) ==
    [database |-> rec.database,
     schema |-> rec.schema,
     table |-> Absent,
     column |-> Absent,
     node_type |-> Str(DBT_MODEL),
     query_id |-> Absent,
     user_name |-> Absent,
     observed_at |-> Absent]

\* process_manifest_json, 337-343: one edge per entry of depends_on.nodes
ManifestEdgeDict(rec, dep) ==
    [source |-> Str(dep),
     target |-> Str(rec.node_id),
     edge_type |-> Str("DBT_DEPENDENCY"),
     query_id |-> Absent,
     user_name |-> Absent,
     observed_at |-> Absent,
     confidence |-> Absent]

\* process_manifest_json, 310-350: records that are not models are skipped
RECURSIVE ManifestNodes(_)
ManifestNodes(manifest) ==
    IF manifest = <<>> THEN <<>>
    ELSE (IF Head(manifest).resource_type = "model"
          THEN <<ManifestNodeDict(Head(manifest))>> ELSE <<>>)
         \o ManifestNodes(Tail(manifest))

RECURSIVE ManifestEdges(_)
ManifestEdges(manifest) ==
    IF manifest = <<>> THEN <<>>
    ELSE (IF Head(manifest).resource_type = "model"
          THEN [i \in DOMAIN Head(manifest).depends_on |->
                    ManifestEdgeDict(Head(manifest), Head(manifest).depends_on[i])]
          ELSE <<>>)
         \o ManifestEdges(Tail(manifest))

ProcessManifestJson(manifest) ==
    [nodes |-> ManifestNodes(manifest),
     edges |-> ManifestEdges(manifest),
     extraction_method |-> Str("dbt_manifest"),
     sql_text |-> Absent]

----------------------------------------------------------------------------
(* Inputs *)

BSeq(S, n) == UNION {[1..k -> S] : k \in 0..n}

Chr(c) == <<c>>
Join3(a, b, c) == a \o Dot \o b \o Dot \o c

\* node dicts of the shape extract_column_lineage builds (lineage_parser.py 47-54):
\* every key is set, a part the parser did not find is None
SqlNode(db, sch, tbl, col) ==
    [database |-> db, schema |-> sch, table |-> tbl, column |-> col,
     node_type |-> IF Truthy(col) THEN Str(COLUMN) ELSE Str(TABLE),
     query_id |-> Absent, user_name |-> Absent, observed_at |-> Absent]

SqlNodeDicts ==
    {SqlNode(Str(Chr("d")), Str(Chr("s")), Str(Chr("t")), None),
     SqlNode(Str(Chr("d")), Str(Chr("s")), Str(Chr("T")), None),
     SqlNode(None, Str(Chr("s")), Str(Chr("t")), None),
     SqlNode(Str(Chr("d")), Str(Chr("s")), Str(Chr("t")), Str(Chr("c")))}

Num(n) == [k |-> "num", v |-> n]

SqlEdge(src, tgt, conf) ==
    [source |-> Str(src), target |-> Str(tgt), edge_type |-> Str("COLUMN_LINEAGE"),
     query_id |-> Absent, user_name |-> Absent, observed_at |-> Absent,
     confidence |-> conf]

\* an evidence record may carry a confidence in [0, 1] (in tenths)
\* the endpoints are the parser's own rendering of a node (str(edge[0])), text that
\* store_lineage_data copies as it is
SqlEdgeDicts ==
    {SqlEdge(Join3(Chr("d"), Chr("s"), Chr("t")), Join3(Chr("d"), Chr("s"), Chr("T")), conf) :
        conf \in {Absent, Num(5)}}

\* the result dict of extract_column_lineage, 66-71 (the SQL text is left out)
SqlBatches ==
    {[nodes |-> ns, edges |-> es, extraction_method |-> Str("sqlglot"), sql_text |-> Absent] :
        ns \in BSeq(SqlNodeDicts, MaxBatchNodes), es \in BSeq(SqlEdgeDicts, MaxBatchEdges)}

\* parse results of the statements of the query history
QueryResults ==
    {[nodes |-> ns, edges |-> es] :
        ns \in BSeq(SqlNodeDicts, MaxBatchNodes), es \in BSeq(SqlEdgeDicts, MaxBatchEdges)}

QueryRow == [query_id |-> Str(Chr("q")), user_name |-> Str(Chr("u")), start_time |-> Str(Chr("0"))]

ManifestRecords ==
    {[node_id |-> Chr("m"), resource_type |-> rt, name |-> Str(Chr("t")),
      database |-> Str(Chr("d")), schema |-> Str(Chr("s")), alias |-> None,
      depends_on |-> deps] :
        rt \in {"model", "seed"}, deps \in {<<>>, <<Chr("x")>>}}

Manifests == BSeq(ManifestRecords, MaxManifest)

----------------------------------------------------------------------------
(* The ingestion operations *)

Idle == [pc |-> "idle"]

Init ==
    /\ nodes = {}
    /\ edges = EmptyBag
    /\ now = 0
    /\ trav = Idle
    /\ clg = {}
    /\ ing = Idle

\* one call of store_lineage_data(data, source); the clock has advanced by some d in
\* Adv since the last statement
StoreCall(data, source, Adv, maxNodes, maxEdges) ==
    \E d \in Adv :
        LET ts == IF now + d <= MaxClock THEN now + d ELSE now
            out == StoreLineageData(nodes, edges, data, source, ts)
        IN /\ Cardinality(out.nodes) <= maxNodes
           /\ BagCardinality(out.edges) <= maxEdges
           /\ nodes' = out.nodes
           /\ edges' = out.edges
           /\ now' = ts

SqlCalls == {[data |-> d, source |-> "SQLGLOT"] : d \in SqlBatches}

\* snowpark.py 495: the result is stored only when it holds a node
QueryHistoryCalls ==
    {[data |-> QueryHistoryResult(r, QueryRow), source |-> "QUERY_HISTORY"] :
        r \in {q \in QueryResults : Len(q.nodes) > 0}}

ManifestCalls ==
    {[data |-> ProcessManifestJson(m), source |-> "DBT_ARTIFACTS"] : m \in Manifests}

Calls == SqlCalls \cup QueryHistoryCalls \cup ManifestCalls

\* store_lineage_data(result) with the default source of line 117
IngestSqlParse(Batches, Adv, maxNodes, maxEdges) ==
    /\ trav.pc = "idle"
    /\ \E d \in Batches : StoreCall(d, "SQLGLOT", Adv, maxNodes, maxEdges)
    /\ UNCHANGED <<trav, clg, ing>>

\* lineage_auto_discover with store=true, snowpark.py 479-502
IngestQueryHistory(Adv) ==
    /\ trav.pc = "idle"
    /\ \E c \in QueryHistoryCalls : StoreCall(c.data, c.source, Adv, MaxNodeRows, MaxEdgeRows)
    /\ UNCHANGED <<trav, clg, ing>>

\* lineage_dbt_upload, snowpark.py 527-565, and store_dbt_lineage
IngestManifest(Adv) ==
    /\ trav.pc = "idle"
    /\ \E c \in ManifestCalls : StoreCall(c.data, c.source, Adv, MaxNodeRows, MaxEdgeRows)
    /\ UNCHANGED <<trav, clg, ing>>

\* ingestion while the clock runs
Next ==
    \/ IngestSqlParse(SqlBatches, {0, 1}, MaxNodeRows, MaxEdgeRows)
    \/ IngestQueryHistory({0, 1})
    \/ IngestManifest({0, 1})

Spec == Init /\ [][Next]_vars

\* ingestion within one instant of the clock: what the store holds apart from its
\* timestamps
NextSameInstant ==
    \/ IngestSqlParse(SqlBatches, {0}, MaxNodeRows, MaxEdgeRows)
    \/ IngestQueryHistory({0})
    \/ IngestManifest({0})

SameInstantSpec == Init /\ [][NextSameInstant]_vars

MaxRecords == 2      \* records of each kind in a batch with records that fail

\* node records, one of them with a quote in its table name: its MERGE raises
FailNodeDicts ==
    {SqlNode(Str(Chr("d")), Str(Chr("s")), Str(Chr("t")), None),
     SqlNode(Str(Chr("d")), Str(Chr("s")), Str(Chr("T")), None),
     SqlNode(Str(Chr("d")), Str(Chr("s")), Str(<<"t", "'">>), None)}

\* edge records, one without the key 'source' and one with a quote in its target:
\* building or running their INSERT raises
FailEdgeDicts ==
    {SqlEdge(Join3(Chr("d"), Chr("s"), Chr("t")), Join3(Chr("d"), Chr("s"), Chr("T")), Absent),
     SqlEdge(Join3(Chr("d"), Chr("s"), Chr("T")), Join3(Chr("d"), Chr("s"), Chr("t")), Absent),
     [SqlEdge(Join3(Chr("d"), Chr("s"), Chr("t")), Join3(Chr("d"), Chr("s"), Chr("T")), Absent)
         EXCEPT !.source = Absent],
     SqlEdge(Join3(Chr("d"), Chr("s"), Chr("t")), <<"t", "'">>, Absent)}

FailBatches ==
    {[nodes |-> ns, edges |-> es, extraction_method |-> Str("sqlglot"), sql_text |-> Absent] :
        ns \in BSeq(FailNodeDicts, MaxRecords), es \in BSeq(FailEdgeDicts, MaxRecords)}

FailCalls == {[data |-> d, source |-> "SQLGLOT"] : d \in FailBatches}

\* ingestion of batches in which records fail
BatchNext == IngestSqlParse(FailBatches, {0, 1}, MaxNodeRows, MaxEdgeRows)

BatchSpec == Init /\ [][BatchNext]_vars

----------------------------------------------------------------------------
(* The traversal endpoints *)

\* the OBJECT_IDs of the nodes whose OBJECT_NAME is name, letter case apart:
\* snowpark.py 350-355 and 422-424
ResolveByName(tbl, name, column) ==
    {n.object_id :
        n \in {m \in tbl : /\ Upper(m.object_name) = Upper(name)
                           /\ Truthy(column) => Upper(m.column_name) = Upper(column.v)}}

\* the rows of lineage_nodes with OBJECT_ID in ids: snowpark.py 392-393 and 441
NodesIn(tbl, ids) == {n \in tbl : n.object_id \in ids}

\* the orders in which to_local_iterator() may hand over the rows of a query result
RECURSIVE Orderings(_)
Orderings(rows) ==
    IF rows = EmptyBag THEN {<<>>}
    ELSE UNION {{<<r>> \o s : s \in Orderings(rows (-) SetToBag({r}))} : r \in DOMAIN rows}

\* abort(400, ...): the request is answered with an HTTP error
Aborted(op, status) == [pc |-> "aborted", op |-> op, status |-> status]

\* get_session() returned None: snowpark.py 348-349 and 420-421
NoSession(op, name, depth) ==
    [pc |-> "done", op |-> op, name |-> name, depth |-> depth,
     info |-> "no_session", error |-> "", status |-> 200, store |-> "no_session",
     out_nodes |-> {}, all_edge_rows |-> <<>>]

\* a query raised: the except clauses of snowpark.py 398-404 and 443-448 answer an
\* empty result with an error message and status 200
QueryFailed(op, name, depth) ==
    [pc |-> "done", op |-> op, name |-> name, depth |-> depth,
     info |-> "", error |-> IF op = "impact" THEN "impact_failed" ELSE "lineage_failed",
     status |-> 200, store |-> "raised",
     out_nodes |-> {}, all_edge_rows |-> <<>>]

\* request.args.get('depth') or default
DepthArg(depth_str, default) == IF Truthy(depth_str) THEN depth_str.v ELSE default

\* lineage_impact, snowpark.py 418-430: the seeds, or the empty answer
ImpactBegin(ntbl, name, depth) ==
    LET seed_ids == ResolveByName(ntbl, name, None)
    IN IF seed_ids = {}
       THEN [pc |-> "done", op |-> "impact", name |-> name, depth |-> depth,
             info |-> "", error |-> "", status |-> 200,
             out_nodes |-> {}, all_edge_rows |-> <<>>]
       ELSE [pc |-> "impact", op |-> "impact", name |-> name, depth |-> depth,
             seed_ids |-> seed_ids, current_ids |-> seed_ids,
             all_node_ids |-> seed_ids, all_edge_rows |-> <<>>,
             i |-> 0, n |-> Max2(1, depth), over |-> FALSE]

\* a query for the edges that leave or enter the current ids
ImpactFetch_Touching(etbl, t) ==
    LET Touches(r) == r.src_object_id \in t.current_ids \/ r.tgt_object_id \in t.current_ids
    IN Where(etbl, Touches)

\* the query of snowpark.py 432: the edges that leave the current ids
ImpactFetch(etbl, t) ==
    LET FromCurrent(r) == r.src_object_id \in t.current_ids
    IN Where(etbl, FromCurrent)

\* a pass that moves on from the first row handed over only
ImpactPass_FirstRow(t, e_rows) ==
    LET next_ids == {e_rows[k].tgt_object_id : k \in {j \in DOMAIN e_rows : j = 1}}
                    \ t.all_node_ids
    IN IF next_ids = {}
       THEN [t EXCEPT !.all_edge_rows = @ \o e_rows, !.i = @ + 1, !.over = TRUE]
       ELSE [t EXCEPT !.all_edge_rows = @ \o e_rows,
                      !.all_node_ids = @ \cup next_ids,
                      !.current_ids = next_ids,
                      !.i = @ + 1,
                      !.over = (t.i + 1 = t.n)]

\* one pass of the loop of lineage_impact, snowpark.py 431-440, over the rows e_rows
\* in the order the store handed them over
ImpactPass(t, e_rows) ==
    LET next_ids == {e_rows[k].tgt_object_id :
                        k \in {j \in DOMAIN e_rows : e_rows[j].tgt_object_id # <<>>}}
                    \ t.all_node_ids
    IN IF next_ids = {}
       THEN [t EXCEPT !.all_edge_rows = @ \o e_rows,
                      !.i = @ + 1,
                      !.over = TRUE]
       ELSE [t EXCEPT !.all_edge_rows = @ \o e_rows,
                      !.all_node_ids = @ \cup next_ids,
                      !.current_ids = next_ids,
                      !.i = @ + 1,
                      !.over = (t.i + 1 = t.n)]

\* the answer of lineage_impact, snowpark.py 441-442
ImpactAnswer(ntbl, t) ==
    [pc |-> "done", op |-> "impact", name |-> t.name, depth |-> t.depth,
     info |-> "", error |-> "", status |-> 200,
     out_nodes |-> NodesIn(ntbl, t.all_node_ids),
     all_edge_rows |-> t.all_edge_rows]

\* GET /lineage/impact, snowpark.py 407-430: the parameters are read, the session
\* is obtained and the seeds are looked up; Store is what the store may do
ImpactStart(name, depth_str, Store) ==
    /\ trav.pc = "idle"
    /\ LET d == DepthArg(depth_str, <<"2">>)
       IN IF ~Truthy(name) \/ ~IsInt(d)
          THEN trav' = Aborted("impact", 400)
          ELSE \E st \in Store :
                  trav' = CASE st = "no_session" -> NoSession("impact", name.v, ToInt(d))
                            [] st = "raises" -> QueryFailed("impact", name.v, ToInt(d))
                            [] OTHER -> ImpactBegin(nodes, name.v, ToInt(d))
    /\ UNCHANGED <<nodes, edges, now, clg, ing>>

ImpactStep(Store) ==
    /\ trav.pc = "impact"
    /\ ~trav.over
    /\ \E st \in Store \ {"no_session"} :
          IF st = "raises"
          THEN trav' = QueryFailed("impact", trav.name, trav.depth)
          ELSE \E e_rows \in Orderings(ImpactFetch(edges, trav)) :
                  trav' = ImpactPass(trav, e_rows)
    /\ UNCHANGED <<nodes, edges, now, clg, ing>>

ImpactFinish(Store) ==
    /\ trav.pc = "impact"
    /\ trav.over
    /\ \E st \in Store \ {"no_session"} :
          trav' = IF st = "raises" THEN QueryFailed("impact", trav.name, trav.depth)
                  ELSE ImpactAnswer(nodes, trav)
    /\ UNCHANGED <<nodes, edges, now, clg, ing>>

\* the queries of snowpark.py 364-365 and 386-387: the edges that touch ids
ObjectFetch(etbl, ids) ==
    LET Touches(r) == r.src_object_id \in ids \/ r.tgt_object_id \in ids
    IN Where(etbl, Touches)

\* lineage_object, snowpark.py 345-370: the seeds and their direct edges (in the
\* order the store handed them over), or the empty answer
ObjectBegin(ntbl, name, column, depth, direct) ==
    LET node_ids == ResolveByName(ntbl, name, column)
    IN IF node_ids = {}
       THEN [pc |-> "done", op |-> "object", name |-> name, depth |-> depth,
             info |-> "No matching nodes found", error |-> "", status |-> 200,
             out_nodes |-> {}, all_edge_rows |-> <<>>]
       ELSE [pc |-> "object", op |-> "object", name |-> name, depth |-> depth,
             seed_ids |-> node_ids, current_ids |-> node_ids,
             all_node_ids |-> node_ids, all_edge_rows |-> direct,
             i |-> 0, n |-> Max2(0, depth - 1), over |-> (Max2(0, depth - 1) = 0)]

\* the ids the loop of lineage_object moves to, snowpark.py 375-381
ObjectNextIds(t) ==
    LET rows == t.all_edge_rows
    IN ({rows[k].tgt_object_id : k \in {j \in DOMAIN rows : rows[j].src_object_id \in t.current_ids}}
        \cup {rows[k].src_object_id : k \in {j \in DOMAIN rows : rows[j].tgt_object_id \in t.current_ids}})
       \ t.all_node_ids

\* the loop of lineage_object is left by a break, snowpark.py 373-374 and 382-383
ObjectBreaks(t) == t.all_edge_rows = <<>> \/ ObjectNextIds(t) = {}

\* one pass of the loop of lineage_object, snowpark.py 372-388, extra being the rows
\* of extra_edges in the order the store handed them over
ObjectPass(t, extra) ==
    IF ObjectBreaks(t)
    THEN [t EXCEPT !.i = @ + 1, !.over = TRUE]
    ELSE [t EXCEPT !.all_node_ids = @ \cup ObjectNextIds(t),
                   !.current_ids = ObjectNextIds(t),
                   !.all_edge_rows = @ \o extra,
                   !.i = @ + 1,
                   !.over = (t.i + 1 = t.n)]

\* the answer of lineage_object, snowpark.py 390-397
ObjectAnswer(ntbl, t) ==
    [pc |-> "done", op |-> "object", name |-> t.name, depth |-> t.depth,
     info |-> "", error |-> "", status |-> 200,
     out_nodes |-> NodesIn(ntbl, t.all_node_ids),
     all_edge_rows |-> t.all_edge_rows]

\* GET /lineage/object, snowpark.py 331-370
ObjectStart(name, column, depth_str, Store) ==
    /\ trav.pc = "idle"
    /\ LET d == DepthArg(depth_str, <<"1">>)
       IN IF ~IsInt(d) \/ ~Truthy(name)
          THEN trav' = Aborted("object", 400)
          ELSE \E st \in Store :
                  CASE st = "no_session" -> trav' = NoSession("object", name.v, ToInt(d))
                    [] st = "raises" -> trav' = QueryFailed("object", name.v, ToInt(d))
                    [] OTHER ->
                         \E direct \in Orderings(ObjectFetch(edges,
                                                   ResolveByName(nodes, name.v, column))) :
                            trav' = ObjectBegin(nodes, name.v, column, ToInt(d), direct)
    /\ UNCHANGED <<nodes, edges, now, clg, ing>>

ObjectStep(Store) ==
    /\ trav.pc = "object"
    /\ ~trav.over
    /\ \E st \in Store \ {"no_session"} :
          IF st = "raises" /\ ~ObjectBreaks(trav)
          THEN trav' = QueryFailed("object", trav.name, trav.depth)
          ELSE \E extra \in Orderings(IF ObjectBreaks(trav) THEN EmptyBag
                                      ELSE ObjectFetch(edges, ObjectNextIds(trav))) :
                  trav' = ObjectPass(trav, extra)
    /\ UNCHANGED <<nodes, edges, now, clg, ing>>

ObjectFinish(Store) ==
    /\ trav.pc = "object"
    /\ trav.over
    /\ \E st \in Store \ {"no_session"} :
          trav' = IF st = "raises" THEN QueryFailed("object", trav.name, trav.depth)
                  ELSE ObjectAnswer(nodes, trav)
    /\ UNCHANGED <<nodes, edges, now, clg, ing>>

\* the SELECT list of both recursive queries: src, tgt, kind and the level
CteRow(r, level) ==
    [src_object_id |-> r.src_object_id, tgt_object_id |-> r.tgt_object_id,
     edge_kind |-> r.edge_kind, level |-> level]

\* the JOIN ... ON of the recursive member: lineage_parser.py 245 (upstream) and
\* 266 (downstream)
CteJoins(dir, e, u) ==
    IF dir = "upstream" THEN e.tgt_object_id = u.src_object_id
    ELSE e.src_object_id = u.tgt_object_id

\* one evaluation of the recursive member over the rows of the previous one,
\* lineage_parser.py 243-246 and 264-267
CteRecursiveMember(tbl, prev, dir, depth) ==
    LET pairs == {p \in Rows(tbl) \X Rows(prev) :
                     CteJoins(dir, p[1], p[2]) /\ p[2].level < depth}
        Out(p) == CteRow(p[1], p[2].level + 1)
    IN [row \in {Out(p) : p \in pairs} |->
           BagCardinality([p \in {q \in pairs : Out(q) = row} |-> tbl[p[1]] * prev[p[2]]])]

\* UNION ALL of the members until one is empty
RECURSIVE CteRows(_, _, _, _)
CteRows(tbl, prev, dir, depth) ==
    IF Rows(prev) = {} THEN EmptyBag
    ELSE prev (+) CteRows(tbl, CteRecursiveMember(tbl, prev, dir, depth), dir, depth)

\* WITH RECURSIVE upstream_lineage / downstream_lineage, lineage_parser.py 233-270
RecursiveLineage(tbl, object_id, dir, depth) ==
    LET Anchor(r) == IF dir = "upstream" THEN r.tgt_object_id = object_id
                     ELSE r.src_object_id = object_id
        First(r) == CteRow(r, 1)
    IN CteRows(tbl, MapBag(Where(tbl, Anchor), First), dir, depth)

\* get_object_lineage, lineage_parser.py 229-301, called by lineage_enhanced_object
GetObjectLineage(ntbl, etbl, object_id, depth) ==
    LET up == RecursiveLineage(etbl, object_id, "upstream", depth)
        down == RecursiveLineage(etbl, object_id, "downstream", depth)
        all_object_ids == {object_id}
                          \cup {r.src_object_id : r \in Rows(up) \cup Rows(down)}
                          \cup {r.tgt_object_id : r \in Rows(up) \cup Rows(down)}
    IN [pc |-> "done", op |-> "enhanced", name |-> object_id, depth |-> depth,
        info |-> "", error |-> "", status |-> 200,
        out_nodes |-> NodesIn(ntbl, all_object_ids),
        upstream_edges |-> up, downstream_edges |-> down]

\* GET /lineage/enhanced-object, snowpark.py 505-524: int() of the depth is outside
\* the try (an unhandled ValueError is a 500), a missing id is a 400; without a
\* session the answer is an error with empty nodes and edges, and when a query raises
\* get_object_lineage returns a dict with the error only (lineage_parser.py 300-301);
\* both are sent with status 200
EnhancedObject(object_id, depth_str, Store) ==
    /\ trav.pc = "idle"
    /\ LET d == Get(depth_str, Str(<<"3">>)).v
       IN IF ~IsInt(d) THEN trav' = Aborted("enhanced", 500)
          ELSE IF ~Truthy(object_id) THEN trav' = Aborted("enhanced", 400)
          ELSE \E st \in Store :
                  trav' =
                    CASE st = "no_session" ->
                           [pc |-> "done", op |-> "enhanced", name |-> object_id.v,
                            depth |-> ToInt(d), info |-> "", error |-> "no_session",
                            status |-> 200, store |-> "no_session", out_nodes |-> {},
                            upstream_edges |-> EmptyBag, downstream_edges |-> EmptyBag]
                      [] st = "raises" ->
                           [pc |-> "done", op |-> "enhanced", name |-> object_id.v,
                            depth |-> ToInt(d), info |-> "",
                            error |-> "object_lineage_query_failed",
                            status |-> 200, store |-> "raised"]
                      [] OTHER -> GetObjectLineage(nodes, edges, object_id.v, ToInt(d))
    /\ UNCHANGED <<nodes, edges, now, clg, ing>>

\* the response is sent
Return ==
    /\ trav.pc \in {"done", "aborted"}
    /\ trav' = Idle
    /\ UNCHANGED <<nodes, edges, now, clg, ing>>

MaxGraphNodes == 3   \* rows of lineage_nodes (traversal specification)
MaxGraphEdges == 3   \* rows of lineage_edges (traversal specification)

GraphTables == {Chr("a"), Chr("b"), Chr("c")}
GraphId(t) == Join3(Chr("d"), Chr("s"), t)

GraphNodeDicts == {SqlNode(Str(Chr("d")), Str(Chr("s")), Str(t), None) : t \in GraphTables}
GraphEdgeDicts == {SqlEdge(GraphId(x), GraphId(y), Absent) : x \in GraphTables, y \in GraphTables}

GraphBatches ==
    {[nodes |-> ns, edges |-> es, extraction_method |-> Str("sqlglot"), sql_text |-> Absent] :
        ns \in BSeq(GraphNodeDicts, MaxBatchNodes), es \in BSeq(GraphEdgeDicts, MaxBatchEdges)}

\* the name, object_id and depth parameters of the requests: a name in either letter
\* case, an unknown name and none; no depth, depths in and out of range, and text
\* that is no number
QueryNames == {Str(Chr("a")), Str(Chr("B")), Str(Chr("x")), None}
QueryObjectIds == {Str(GraphId(Chr("a"))), Str(GraphId(Chr("x"))), None}
Depths == {None, Str(<<"0">>), Str(<<"1">>), Str(<<"2">>), Str(<<"1", "0">>), Str(<<"x">>)}

\* the endpoints over a store that may do what Store says
Endpoints(Store) ==
    \/ \E name \in QueryNames, depth \in Depths : ImpactStart(name, depth, Store)
    \/ ImpactStep(Store)
    \/ ImpactFinish(Store)
    \/ \E name \in QueryNames, depth \in Depths : ObjectStart(name, None, depth, Store)
    \/ ObjectStep(Store)
    \/ ObjectFinish(Store)
    \/ \E id \in QueryObjectIds, depth \in Depths : EnhancedObject(id, depth, Store)
    \/ Return

\* the store answers every query
TravNext ==
    \/ IngestSqlParse(GraphBatches, {0}, MaxGraphNodes, MaxGraphEdges)
    \/ Endpoints({"ok"})

TravSpec == Init /\ [][TravNext]_vars

\* the session may be missing and any query may raise
OutageNext ==
    \/ IngestSqlParse(GraphBatches, {0}, MaxGraphNodes, MaxGraphEdges)
    \/ Endpoints({"ok", "no_session", "raises"})

OutageSpec == Init /\ [][OutageNext]_vars

----------------------------------------------------------------------------
(* The path query *)

ConfidenceThreshold == 7     \* confidence_threshold: float = 0.7

\* the base case of lineage_cte, core/database.py 369-384: one filter at most is
\* added, on the source first
CteBaseCase(tbl, source_fqn, target_fqn, direction, confidence_threshold) ==
    {[source_fqn |-> r.source_fqn, target_fqn |-> r.target_fqn,
      transformation_type |-> r.transformation_type,
      confidence_score |-> r.confidence_score,
      depth_level |-> 1, path |-> <<r.source_fqn, r.target_fqn>>] :
        r \in {x \in tbl :
                 /\ x.confidence_score >= confidence_threshold
                 /\ IF Truthy(source_fqn) /\ direction \in {"downstream", "both"}
                    THEN x.source_fqn = source_fqn.v
                    ELSE IF Truthy(target_fqn) /\ direction \in {"upstream", "both"}
                    THEN x.target_fqn = target_fqn.v
                    ELSE TRUE}}

\* JOIN lineage_cte lc ON ..., core/database.py 400-405
CteJoinsOn(direction, c, lc) ==
    CASE direction = "downstream" -> c.source_fqn = lc.target_fqn
      [] direction = "upstream" -> c.target_fqn = lc.source_fqn
      [] OTHER -> c.source_fqn = lc.target_fqn \/ c.target_fqn = lc.source_fqn

\* the recursive case over the rows prev of the previous round, core/database.py
\* 388-411
CteRecursiveCase(tbl, prev, direction, depth, confidence_threshold) ==
    {[source_fqn |-> p[1].source_fqn, target_fqn |-> p[1].target_fqn,
      transformation_type |-> p[1].transformation_type,
      confidence_score |-> p[1].confidence_score,
      depth_level |-> p[2].depth_level + 1,
      path |-> Append(p[2].path, p[1].target_fqn)] :
        p \in {q \in tbl \X prev :
                 /\ CteJoinsOn(direction, q[1], q[2])
                 /\ q[2].depth_level < depth
                 /\ q[1].confidence_score >= confidence_threshold
                 /\ q[1].target_fqn \notin Range(q[2].path)}}

\* WITH RECURSIVE lineage_cte: the rounds until one adds no row
RECURSIVE LineageCte(_, _, _, _, _)
LineageCte(tbl, prev, direction, depth, confidence_threshold) ==
    IF prev = {} THEN {}
    ELSE prev \cup LineageCte(tbl,
                              CteRecursiveCase(tbl, prev, direction, depth, confidence_threshold),
                              direction, depth, confidence_threshold)

\* the rows of the query that QueryBuilder.build_lineage_query builds, core/database.py
\* 359-417, its placeholders bound to the values it was built for
BuildLineageQuery(tbl, source_fqn, target_fqn, direction, depth, confidence_threshold) ==
    LineageCte(tbl,
               CteBaseCase(tbl, source_fqn, target_fqn, direction, confidence_threshold),
               direction, depth, confidence_threshold)

\* the path query is run for the paths that lead downstream from source_fqn
PathQuery(source_fqn, depth) ==
    /\ trav.pc = "idle"
    /\ trav' = [pc |-> "done", op |-> "path_query", name |-> source_fqn, depth |-> depth,
                rows |-> BuildLineageQuery(clg, Str(source_fqn), None, "downstream",
                                           depth, ConfidenceThreshold)]
    /\ UNCHANGED <<nodes, edges, now, clg, ing>>

\* the query is run for the lineage upstream of target_fqn
UpstreamQuery(target_fqn, depth) ==
    /\ trav.pc = "idle"
    /\ trav' = [pc |-> "done", op |-> "upstream_query", name |-> target_fqn, depth |-> depth,
                rows |-> BuildLineageQuery(clg, None, Str(target_fqn), "upstream",
                                           depth, ConfidenceThreshold)]
    /\ UNCHANGED <<nodes, edges, now, clg, ing>>

\* the ids one edge downstream of the ids F in the column lineage graph
Successors(tbl, F) == {r.target_fqn : r \in {x \in tbl : x.source_fqn \in F}}

\* forward breadth-first search from the source: levels[k + 1] is the set of ids first
\* discovered at depth k; the search ends when the target is reached, max_hops is
\* exhausted or nothing new is discovered
RECURSIVE BfsLevels(_, _, _, _, _)
BfsLevels(tbl, levels, visited, target_fqn, max_hops) ==
    LET frontier == levels[Len(levels)]
        next == Successors(tbl, frontier) \ visited
    IN IF target_fqn \in frontier \/ Len(levels) - 1 >= max_hops \/ next = {}
       THEN levels
       ELSE BfsLevels(tbl, Append(levels, next), visited \cup next, target_fqn, max_hops)

\* a single parent pointer per id
ParentsOf_Single(tbl, levels, k, n) ==
    LET P == {x \in levels[k - 1] : \E r \in tbl : r.source_fqn = x /\ r.target_fqn = n}
    IN IF P = {} THEN {} ELSE {CHOOSE x \in P : TRUE}

\* the parent pointers of id n, discovered at depth k - 1: the ids of the level
\* before that have an edge to n
ParentsOf(tbl, levels, k, n) ==
    {x \in levels[k - 1] : \E r \in tbl : r.source_fqn = x /\ r.target_fqn = n}

\* the shortest paths from the source to n, by walking the parent pointers backward
RECURSIVE PathsBack(_, _, _, _)
PathsBack(tbl, levels, k, n) ==
    IF k = 1 THEN {<<n>>}
    ELSE UNION {{Append(p, n) : p \in PathsBack(tbl, levels, k - 1, q)} :
                   q \in ParentsOf(tbl, levels, k, n)}

PathCap == 50     \* the cap on the number of paths returned

\* find_paths(source_fqn, target_fqn, max_hops) -> list<Path>
FindPaths(tbl, source_fqn, target_fqn, max_hops) ==
    LET levels == BfsLevels(tbl, <<{source_fqn}>>, {source_fqn}, target_fqn, max_hops)
        all == IF target_fqn \in levels[Len(levels)]
               THEN {[nodes_in_order |-> p, hop_count |-> Len(p) - 1] :
                        p \in PathsBack(tbl, levels, Len(levels), target_fqn)}
               ELSE {}
    IN IF Cardinality(all) <= PathCap THEN all
       ELSE CHOOSE some \in SUBSET all : Cardinality(some) = PathCap

MinHops == 1      \* max_hops: int = Query(10, ge=1, le=20)
MaxHops == 20

\* GET /path, api/v1/lineage.py 220-255: max_hops is validated, the service is asked
\* for the paths
GetLineagePath(source_fqn, target_fqn, max_hops) ==
    /\ trav.pc = "idle"
    /\ trav' =
         IF max_hops < MinHops \/ max_hops > MaxHops
         THEN Aborted("path", 422)
         ELSE [pc |-> "done", op |-> "path", name |-> source_fqn, target |-> target_fqn,
               depth |-> max_hops, status |-> 200,
               paths |-> FindPaths(clg, source_fqn, target_fqn, max_hops)]
    /\ UNCHANGED <<nodes, edges, now, clg, ing>>

MaxPathEdges == 5    \* rows of COLUMN_LINEAGE_GRAPH (path specification)

PathTables == GraphTables \cup {Chr("d")}

ClgRow(x, y, c) ==
    [source_fqn |-> GraphId(x), target_fqn |-> GraphId(y),
     transformation_type |-> "identity", confidence_score |-> c]

\* every edge with confidence 1.0, and a -> b also below the threshold
ClgRows ==
    {ClgRow(x, y, ConfidenceOne) : x \in PathTables, y \in PathTables}
    \cup {ClgRow(Chr("a"), Chr("b"), ConfidenceThreshold - 1)}

PathGraphs == {g \in SUBSET ClgRows : Cardinality(g) <= MaxPathEdges}

PathSources == {GraphId(Chr("a"))}
PathTargets == {GraphId(Chr("a")), GraphId(Chr("d"))}
HopInputs == {0, 1, 2, 5}

PathInit ==
    /\ nodes = {}
    /\ edges = EmptyBag
    /\ now = 0
    /\ trav = Idle
    /\ clg \in PathGraphs
    /\ ing = Idle

PathNext ==
    \/ \E s \in PathSources, d \in HopInputs \ {0} : PathQuery(s, d)
    \/ \E t \in PathTargets, d \in HopInputs \ {0} : UpstreamQuery(t, d)
    \/ \E s \in PathSources, t \in PathTargets, h \in HopInputs : GetLineagePath(s, t, h)
    \/ Return

PathSpec == PathInit /\ [][PathNext]_vars

----------------------------------------------------------------------------
(* Calls of store_lineage_data that run side by side *)

MaxConcNodes == 2    \* node records of a batch ingested side by side
MaxConcEdges == 1    \* edge records of a batch ingested side by side
MaxConcEdgeRows == 2 \* rows of lineage_edges (side-by-side specification)

\* one pass of the node loop, lineage_parser.py 124-177: the MERGE of one record,
\* skipped when it raises
NodeStatement(tbl, data, node, source, ts) ==
    LET row == NodeSourceRow(data, node, source, ts)
    IN IF NodeStmtFails(row) THEN tbl ELSE MergeNode(tbl, row)

\* one pass of the edge loop, lineage_parser.py 180-217: the INSERT of one record,
\* skipped when it raises
EdgeStatement(tbl, data, edge, source, ts) ==
    IF EdgeStmtFails(data, edge) THEN tbl
    ELSE InsertEdge(tbl, EdgeRow(data, edge, source, ts))

\* the statements a call issues: one per node record, then one per edge record
StatementCount(c) == Len(c.data.nodes) + Len(c.data.edges)

ConcNodeDicts ==
    {SqlNode(Str(Chr("d")), Str(Chr("s")), Str(Chr("t")), None),
     SqlNode(Str(Chr("d")), Str(Chr("s")), Str(Chr("T")), None)}

ConcEdgeDicts ==
    {SqlEdge(Join3(Chr("d"), Chr("s"), Chr("t")), Join3(Chr("d"), Chr("s"), Chr("T")), Absent)}

ConcResults ==
    {[nodes |-> ns, edges |-> es] :
        ns \in BSeq(ConcNodeDicts, MaxConcNodes), es \in BSeq(ConcEdgeDicts, MaxConcEdges)}

\* a parse result stored by its caller with the default source
ConcSqlCalls ==
    {[data |-> [nodes |-> r.nodes, edges |-> r.edges,
                extraction_method |-> Str("sqlglot"), sql_text |-> Absent],
      source |-> "SQLGLOT"] : r \in ConcResults}

\* a query-history result stored by lineage_auto_discover
ConcQueryHistoryCalls ==
    {[data |-> QueryHistoryResult(r, QueryRow), source |-> "QUERY_HISTORY"] :
        r \in ConcResults}

\* two requests arrive together: each call of store_lineage_data starts before the
\* other has issued its statements. base_nodes and base_edges keep the tables as the
\* calls found them
ConcBegin(x, y) ==
    /\ ing.pc = "idle"
    /\ trav.pc = "idle"
    /\ StatementCount(x) > 0
    /\ StatementCount(y) > 0
    /\ ing' = [pc |-> "running", base_nodes |-> nodes, base_edges |-> edges,
               calls |-> <<[data |-> x.data, source |-> x.source, at |-> 0],
                           [data |-> y.data, source |-> y.source, at |-> 0]>>]
    /\ UNCHANGED <<nodes, edges, now, trav, clg>>

\* call w issues its next statement; the warehouse runs statements one at a time
ConcStatement(w) ==
    /\ ing.pc = "running"
    /\ LET c == ing.calls[w]
           k == c.at + 1
       IN /\ k <= StatementCount(c)
          /\ IF k <= Len(c.data.nodes)
             THEN /\ nodes' = NodeStatement(nodes, c.data, c.data.nodes[k], c.source, now)
                  /\ UNCHANGED edges
             ELSE /\ edges' = EdgeStatement(edges, c.data,
                                            c.data.edges[k - Len(c.data.nodes)],
                                            c.source, now)
                  /\ BagCardinality(edges') <= MaxConcEdgeRows
                  /\ UNCHANGED nodes
          /\ ing' = [ing EXCEPT !.calls[w].at = k]
    /\ UNCHANGED <<now, trav, clg>>

\* both calls have issued every statement
BothReturned ==
    /\ ing.pc = "running"
    /\ \A w \in DOMAIN ing.calls : ing.calls[w].at = StatementCount(ing.calls[w])

\* both calls return their result dicts
ConcReturn ==
    /\ BothReturned
    /\ ing' = Idle
    /\ UNCHANGED <<nodes, edges, now, trav, clg>>

ConcNext ==
    \/ \E x \in ConcSqlCalls, y \in ConcQueryHistoryCalls : ConcBegin(x, y)
    \/ \E w \in {1, 2} : ConcStatement(w)
    \/ ConcReturn

ConcSpec == Init /\ [][ConcNext]_vars

----------------------------------------------------------------------------
(* Vocabulary of the properties *)

NodeIds(tbl) == {n.object_id : n \in tbl}

Triple(row) == <<row.src_object_id, row.tgt_object_id, row.edge_kind>>
Triples(tbl) == {Triple(r) : r \in Rows(tbl)}
TripleCount(tbl, t) == LET Same(r) == Triple(r) = t IN CountWhere(tbl, Same)

\* a table without the columns that record when a row was last seen
NodeSansLastSeen(n) == [n EXCEPT !.last_seen_ts = 0]
EdgeSansObserved(r) == [r EXCEPT !.observed_ts = 0]
NodesSansLastSeen(tbl) == {NodeSansLastSeen(n) : n \in tbl}
EdgesSansObserved(tbl) == MapBag(tbl, EdgeSansObserved)

\* a table without any timestamp
NodeSansTime(n) == [n EXCEPT !.first_seen_ts = 0, !.last_seen_ts = 0]
NodesSansTime(tbl) == {NodeSansTime(n) : n \in tbl}

\* the step from the unprimed to the primed tables is the call c
StepIsCall(c) ==
    LET out == StoreLineageData(nodes, edges, c.data, c.source, now')
    IN nodes' = out.nodes /\ edges' = out.edges

----------------------------------------------------------------------------
(* C1: ingesting a batch again right after ingesting it leaves the node table and
   the edge table as they were, last_seen_at excepted: no node row and no edge row
   is added. *)
C1_IdempotentIngestion ==
    [][\A c \in Calls :
         StepIsCall(c) =>
            LET again == StoreLineageData(nodes', edges', c.data, c.source, now')
            IN /\ NodesSansLastSeen(again.nodes) = NodesSansLastSeen(nodes')
               /\ EdgesSansObserved(again.edges) = EdgesSansObserved(edges')]_vars

(* C2: the edge table holds at most one edge per (source_id, target_id,
   transform_kind). *)
C2_OneEdgePerTriple ==
    \A t \in Triples(edges) : TripleCount(edges, t) <= 1

(* Witness of C3: an observation has matched a stored edge. *)
RepeatedTriple == \E t \in Triples(edges) : TripleCount(edges, t) >= 2

\* the confidence an evidence record carries; parsed evidence without one is certain
IncomingConfidence(e) ==
    IF e.confidence.k = "num" THEN e.confidence.v ELSE ConfidenceOne

MaxConfidence(tbl, t) ==
    LET S == {r.confidence_score : r \in {x \in Rows(tbl) : Triple(x) = t}}
    IN CHOOSE m \in S : \A x \in S : x <= m

(* C3: the confidence stored for a triple never decreases, and after an observation
   that matches a stored edge it is max(stored confidence, incoming confidence). *)
C3_ConfidenceMonotone ==
    [][/\ \A t \in Triples(edges) : \A r \in Rows(edges') :
             Triple(r) = t => r.confidence_score >= MaxConfidence(edges, t)
       /\ \A c \in Calls :
             StepIsCall(c) =>
                \A i \in DOMAIN c.data.edges :
                   LET e == c.data.edges[i]
                       t == Triple(EdgeRow(c.data, e, c.source, now'))
                   IN (~EdgeStmtFails(c.data, e) /\ t \in Triples(edges)) =>
                         \A r \in Rows(edges') :
                            Triple(r) = t =>
                               r.confidence_score =
                                  Max2(MaxConfidence(edges, t), IncomingConfidence(e))]_vars

----------------------------------------------------------------------------
\* the tables after call x and then call y, from the tables (ntbl, etbl)
AfterBoth(ntbl, etbl, x, y, ts) ==
    LET first == StoreLineageData(ntbl, etbl, x.data, x.source, ts)
    IN StoreLineageData(first.nodes, first.edges, y.data, y.source, ts)

(* C4, as claimed: X then Y leaves the same nodes and edges, with the same stored
   field values (timestamps excepted), as Y then X. *)
C4_Commutative ==
    [][\A x \in Calls :
         StepIsCall(x) =>
            \A y \in Calls :
               LET xy == StoreLineageData(nodes', edges', y.data, y.source, now')
                   yx == AfterBoth(nodes, edges, y, x, now')
               IN /\ NodesSansTime(xy.nodes) = NodesSansTime(yx.nodes)
                  /\ EdgesSansObserved(xy.edges) = EdgesSansObserved(yx.edges)]_vars

(* C4, amended: X then Y leaves the same set of node object_ids and the same edge
   rows (kind, origin, confidence and metadata; edge_id and timestamps excepted) as
   Y then X. *)
C4_CommutativeIdsAndEdges ==
    [][\A x \in Calls :
         StepIsCall(x) =>
            \A y \in Calls :
               LET xy == StoreLineageData(nodes', edges', y.data, y.source, now')
                   yx == AfterBoth(nodes, edges, y, x, now')
               IN /\ NodeIds(xy.nodes) = NodeIds(yx.nodes)
                  /\ EdgesSansObserved(xy.edges) = EdgesSansObserved(yx.edges)]_vars

(* Witness of C4: two batches of different origins have named the same object and
   the same edge. *)
TwoOriginsMerged ==
    /\ \E n \in nodes : /\ n.lineage_source = "SQLGLOT"
                        /\ n.metadata.extraction_method = "QUERY_HISTORY"
    /\ \E r1 \in Rows(edges), r2 \in Rows(edges) :
          Triple(r1) = Triple(r2) /\ r1.lineage_source # r2.lineage_source

----------------------------------------------------------------------------
\* SQL_PARSE > MANIFEST > QUERY_HISTORY, in the names the code gives the origins
OriginRank(source) ==
    CASE source = "SQLGLOT" -> 1
      [] source = "DBT_ARTIFACTS" -> 2
      [] OTHER -> 3

HighestPriority(S) == CHOOSE o \in S : \A p \in S : OriginRank(o) <= OriginRank(p)

ContributingOrigins(tbl, t) == {r.lineage_source : r \in {x \in Rows(tbl) : Triple(x) = t}}

(* C5: a triple ingested from several origins is exactly one edge, whose origin is
   the highest-priority origin that contributed and whose confidence is 1.0 when
   every observation had 1.0. *)
C5_OriginPriority ==
    \A t \in Triples(edges) :
       /\ TripleCount(edges, t) = 1
       /\ \A r \in Rows(edges) :
             Triple(r) = t =>
                /\ r.lineage_source = HighestPriority(ContributingOrigins(edges, t))
                /\ r.confidence_score = ConfidenceOne

----------------------------------------------------------------------------
QualifiedName(n) == <<n.database_name, n.schema_name, n.object_name, n.column_name>>

(* C6: the node table holds at most one node per object_id, and observations naming
   the same database, schema, table and column are one node. *)
C6_OneNodePerObject ==
    \A n1 \in nodes, n2 \in nodes :
       (n1.object_id = n2.object_id \/ QualifiedName(n1) = QualifiedName(n2)) => n1 = n2

(* Witness of C6: a stored node has been observed again, by another origin. *)
NodeSeenAgain ==
    \E n \in nodes : /\ n.last_seen_ts > n.first_seen_ts
                     /\ n.lineage_source = "QUERY_HISTORY"
                     /\ n.metadata.extraction_method = "sqlglot"

(* C7: object ids are upper-cased, so references that differ only in letter case
   are a single node. *)
C7_CaseInsensitiveIdentity ==
    /\ \A n \in nodes : n.object_id = Upper(n.object_id)
    /\ \A n1 \in nodes, n2 \in nodes :
          Upper(n1.object_id) = Upper(n2.object_id) => n1 = n2

MissingPart(s) == s = <<>> \/ s = <<"N", "o", "n", "e">>

(* C8: no stored node lacks its database, schema or table part. *)
C8_QualifiedNodesOnly ==
    \A n \in nodes : /\ ~MissingPart(n.database_name)
                     /\ ~MissingPart(n.schema_name)
                     /\ ~MissingPart(n.object_name)

(* C9: the source_id and target_id of every stored edge are object_ids of stored
   nodes. *)
C9_ReferentialIntegrity ==
    \A r \in Rows(edges) : /\ r.src_object_id \in NodeIds(nodes)
                           /\ r.tgt_object_id \in NodeIds(nodes)

----------------------------------------------------------------------------
\* the graph A -> B -> C -> A over stored nodes A, B, C
CycleEdges ==
    {<<GraphId(Chr("a")), GraphId(Chr("b")), "COLUMN_LINEAGE">>,
     <<GraphId(Chr("b")), GraphId(Chr("c")), "COLUMN_LINEAGE">>,
     <<GraphId(Chr("c")), GraphId(Chr("a")), "COLUMN_LINEAGE">>}

CycleABC ==
    /\ NodeIds(nodes) = {GraphId(t) : t \in GraphTables}
    /\ Triples(edges) = CycleEdges
    /\ \A t \in CycleEdges : TripleCount(edges, t) = 1

\* the edges a finished downstream traversal reports, as a bag of triples
DownstreamEdges(t) ==
    IF t.op = "enhanced" THEN MapBag(t.downstream_edges, Triple)
    ELSE MapBag(SeqToBag(t.all_edge_rows), Triple)

(* C10: every traversal stops within max_depth expansions, and a downstream
   traversal from A with max_depth 10 on the cycle A -> B -> C -> A answers the
   nodes {A, B, C} and 3 edges, each edge once. *)
C10_TraversalOnCycle ==
    /\ trav.pc \in {"impact", "object"} => trav.i <= trav.n
    /\ (/\ trav.pc = "done"
        /\ trav.op \in {"impact", "enhanced"}
        /\ trav.name \in {Chr("a"), GraphId(Chr("a"))}
        /\ trav.depth = 10
        /\ CycleABC)
       => /\ NodeIds(trav.out_nodes) = {GraphId(t) : t \in GraphTables}
          /\ DownstreamEdges(trav) = [t \in CycleEdges |-> 1]

----------------------------------------------------------------------------
(* Breadth-first distance in the stored graph *)

\* the ids one edge away from the ids F, in direction dir
Neighbours(etbl, F, dir) ==
    {r.tgt_object_id :
        r \in {x \in Rows(etbl) : dir \in {"downstream", "both"} /\ x.src_object_id \in F}}
    \cup
    {r.src_object_id :
        r \in {x \in Rows(etbl) : dir \in {"upstream", "both"} /\ x.tgt_object_id \in F}}

\* the ids at breadth-first distance at most d from the ids S
RECURSIVE Within(_, _, _, _)
Within(etbl, S, dir, d) ==
    IF d = 0 THEN S
    ELSE LET W == Within(etbl, S, dir, d - 1) IN W \cup Neighbours(etbl, W, dir)

\* the edges followed by d expansion levels from S: those that leave (downstream),
\* enter (upstream) or touch (both) an id at distance less than d
Followed(etbl, S, dir, d) ==
    LET W == Within(etbl, S, dir, d - 1)
    IN {r \in Rows(etbl) :
           \/ dir \in {"downstream", "both"} /\ r.src_object_id \in W
           \/ dir \in {"upstream", "both"} /\ r.tgt_object_id \in W}

\* the direction an endpoint walks in
DirectionOf(op) == IF op = "impact" THEN "downstream" ELSE "both"

\* the seeds of the request a finished traversal answered (the graph does not
\* change while a request is served)
SeedsOf(t) == ResolveByName(nodes, t.name, None)

\* a finished walk of lineage_impact or lineage_object that had a seed
WalkDone ==
    /\ trav.pc = "done"
    /\ trav.op \in {"impact", "object"}
    /\ trav.depth >= 1
    /\ SeedsOf(trav) # {}

(* C11: a traversal with max_depth d >= 1 answers exactly the stored nodes at
   breadth-first distance at most d from the seeds in its direction (the seeds
   included), and exactly the edges followed in those d expansion levels. *)
C11_DepthBoundedReachability ==
    WalkDone =>
       LET dir == DirectionOf(trav.op)
       IN /\ NodeIds(trav.out_nodes) =
                NodeIds(nodes) \cap Within(edges, SeedsOf(trav), dir, trav.depth)
          /\ Range(trav.all_edge_rows) = Followed(edges, SeedsOf(trav), dir, trav.depth)

----------------------------------------------------------------------------
\* the answer carries no-matching-nodes information: the key 'info'
HasInfo(t) == t.info # ""

(* C12: a traversal or impact request whose name resolves to no node performs no
   expansion and answers nodes = [] and edges = [] together with an explicit
   no-matching-nodes indicator. *)
C12_EmptySeedContract ==
    /\ trav.pc \in {"impact", "object"} => trav.seed_ids # {}
    /\ (/\ trav.pc = "done"
        /\ trav.op \in {"impact", "object"}
        /\ SeedsOf(trav) = {})
       => /\ trav.out_nodes = {}
          /\ trav.all_edge_rows = <<>>
          /\ HasInfo(trav)

----------------------------------------------------------------------------
\* every answer lineage_impact can give from position t, over all the orders in
\* which the store may hand over the rows of each query
RECURSIVE ImpactRuns(_, _, _)
ImpactRuns(ntbl, etbl, t) ==
    IF t.pc = "done" THEN {t}
    ELSE IF t.over THEN {ImpactAnswer(ntbl, t)}
    ELSE UNION {ImpactRuns(ntbl, etbl, ImpactPass(t, s)) :
                   s \in Orderings(ImpactFetch(etbl, t))}

\* every answer lineage_object can give from position t
RECURSIVE ObjectRuns(_, _, _)
ObjectRuns(ntbl, etbl, t) ==
    IF t.pc = "done" THEN {t}
    ELSE IF t.over THEN {ObjectAnswer(ntbl, t)}
    ELSE UNION {ObjectRuns(ntbl, etbl, ObjectPass(t, s)) :
                   s \in Orderings(IF ObjectBreaks(t) THEN EmptyBag
                                   ELSE ObjectFetch(etbl, ObjectNextIds(t)))}

\* every answer a second run of the request answered by t can give on the graph as
\* it is
SecondRuns(t) ==
    IF t.op = "impact" THEN ImpactRuns(nodes, edges, ImpactBegin(nodes, t.name, t.depth))
    ELSE UNION {ObjectRuns(nodes, edges, ObjectBegin(nodes, t.name, None, t.depth, s)) :
                   s \in Orderings(ObjectFetch(edges, ResolveByName(nodes, t.name, None)))}

(* C13: a second run of a finished traversal on the unchanged graph answers the same
   node set and the same edge set as the first, whatever order the store hands the
   rows over in. *)
C13_TraversalDeterminism ==
    (trav.pc = "done" /\ trav.op \in {"impact", "object"}) =>
       \A r \in SecondRuns(trav) :
          /\ NodeIds(r.out_nodes) = NodeIds(trav.out_nodes)
          /\ Range(r.all_edge_rows) = Range(trav.all_edge_rows)

(* Witness of C13: a traversal over several levels has finished, and a second run
   can receive its rows in another order. *)
RowOrderVaries ==
    /\ trav.pc = "done"
    /\ trav.op \in {"impact", "object"}
    /\ Cardinality(NodeIds(trav.out_nodes)) >= 3
    /\ \E r \in SecondRuns(trav) : r.all_edge_rows # trav.all_edge_rows

----------------------------------------------------------------------------
\* the ids that can be reached from the ids S by following edges source -> target
DownstreamOf(etbl, S) == Within(etbl, S, "downstream", BagCardinality(etbl))

(* C14: impact analysis is downstream-only: the source of every edge it collects is
   a node it has reached, every node it answers is a seed or can be reached from a
   seed by following edges source -> target, and so a node that is only upstream of
   the seeds is never answered. *)
C14_ImpactDownstreamOnly ==
    /\ trav.pc = "impact" =>
          \A r \in Range(trav.all_edge_rows) : r.src_object_id \in trav.all_node_ids
    /\ (trav.pc = "done" /\ trav.op = "impact") =>
          /\ \A r \in Range(trav.all_edge_rows) :
                r.src_object_id \in DownstreamOf(edges, SeedsOf(trav))
          /\ NodeIds(trav.out_nodes) \subseteq DownstreamOf(edges, SeedsOf(trav))

(* Witness of C14: an impact request has answered a downstream node while a stored
   node lies upstream of the seed only. *)
UpstreamOnlyNodeLeftOut ==
    /\ trav.pc = "done"
    /\ trav.op = "impact"
    /\ NodeIds(trav.out_nodes) \ SeedsOf(trav) # {}
    /\ \E n \in nodes :
          /\ n.object_id \notin DownstreamOf(edges, SeedsOf(trav))
          /\ \E r \in Rows(edges) : /\ r.src_object_id = n.object_id
                                    /\ r.tgt_object_id \in SeedsOf(trav)

----------------------------------------------------------------------------
\* the stored nodes downstream of the seeds of answer t, the seeds apart
DownstreamObjects(t) ==
    {n \in nodes : n.object_id \in DownstreamOf(edges, SeedsOf(t)) \ SeedsOf(t)}

\* some downstream object lies in a database that is not a seed's
CrossesDatabase(t) ==
    \E n \in DownstreamObjects(t) :
       \A s \in NodesIn(nodes, SeedsOf(t)) : n.database_name # s.database_name

(* C15: the answer of an impact request carries a risk summary whose risk_level is
   LOW when the seed has no downstream object and HIGH when some downstream object
   lies in another database than the seed. *)
C15_ImpactRiskLevel ==
    (trav.pc = "done" /\ trav.op = "impact" /\ SeedsOf(trav) # {}) =>
       /\ "risk_level" \in DOMAIN trav
       /\ DownstreamObjects(trav) = {} => trav.risk_level = "LOW"
       /\ CrossesDatabase(trav) => trav.risk_level = "HIGH"

----------------------------------------------------------------------------
(* Paths in the column lineage graph *)

\* the walks of k hops that lead downstream from id s, as lists of ids
RECURSIVE Walks(_, _, _)
Walks(tbl, s, k) ==
    IF k = 0 THEN {<<s>>}
    ELSE {Append(p[1], p[2].target_fqn) :
             p \in {q \in Walks(tbl, s, k - 1) \X tbl : q[2].source_fqn = q[1][Len(q[1])]}}

\* the walks of k hops from id s to id t
WalksTo(tbl, s, t, k) == {w \in Walks(tbl, s, k) : w[Len(w)] = t}

\* the hop counts, up to max_hops, in which t can be reached from s
HopCounts(tbl, s, t, max_hops) == {k \in 0..max_hops : WalksTo(tbl, s, t, k) # {}}

\* the paths from s to t with the shortest hop count, none if max_hops do not suffice
ShortestPaths(tbl, s, t, max_hops) ==
    LET H == HopCounts(tbl, s, t, max_hops)
    IN IF H = {} THEN {}
       ELSE WalksTo(tbl, s, t, CHOOSE k \in H : \A j \in H : k <= j)

\* a path request has been answered
PathsDone == trav.pc = "done" /\ trav.op = "path" /\ trav.status = 200

(* C16: find_paths(source, target, max_hops) returns every downstream path from
   source to target whose hop count is the shortest one (all of them while they
   are no more than the cap), and no path with a larger hop count or with more than
   max_hops hops. *)
C16_ShortestPathsAll ==
    PathsDone =>
       LET shortest == ShortestPaths(clg, trav.name, trav.target, trav.depth)
           found == {p.nodes_in_order : p \in trav.paths}
       IN /\ found \subseteq shortest
          /\ Cardinality(shortest) <= PathCap => found = shortest
          /\ \A p \in trav.paths : /\ p.hop_count = Len(p.nodes_in_order) - 1
                                   /\ p.hop_count <= trav.depth

(* Witness of C16: two shortest paths of two hops have been returned while a longer
   path to the target exists as well. *)
TwoShortestPaths ==
    /\ PathsDone
    /\ trav.depth = 5
    /\ Cardinality(trav.paths) = 2
    /\ \A p \in trav.paths : p.hop_count = 2
    /\ WalksTo(clg, trav.name, trav.target, 3) # {}

\* a list without a repeated element
IsSimple(p) == \A i \in DOMAIN p, j \in DOMAIN p : p[i] = p[j] => i = j

(* C17: no path the path query reports contains the same node twice, on cyclic
   graphs as well. *)
C17_PathsAreSimple ==
    (trav.pc = "done" /\ trav.op = "path_query") =>
       \A r \in trav.rows : IsSimple(r.path)

----------------------------------------------------------------------------
\* the positions of the records of call c whose statement raises
FailedNodes(c) ==
    {i \in DOMAIN c.data.nodes :
        NodeStmtFails(NodeSourceRow(c.data, c.data.nodes[i], c.source, 0))}
FailedEdges(c) == {i \in DOMAIN c.data.edges : EdgeStmtFails(c.data, c.data.edges[i])}

\* the records of call c that do not fail are stored by the step, and what was
\* stored before the step stays stored
FailuresIsolated(c) ==
    /\ \A i \in DOMAIN c.data.nodes \ FailedNodes(c) :
          ObjectIdOf(c.data.nodes[i]) \in NodeIds(nodes')
    /\ \A i \in DOMAIN c.data.edges \ FailedEdges(c) :
          LET row == EdgeRow(c.data, c.data.edges[i], c.source, now')
              same == {j \in DOMAIN c.data.edges \ FailedEdges(c) :
                          EdgeRow(c.data, c.data.edges[j], c.source, now') = row}
          IN CopiesIn(row, edges') = CopiesIn(row, edges) + Cardinality(same)
    /\ NodeIds(nodes) \subseteq NodeIds(nodes')
    /\ edges \sqsubseteq edges'

(* C18: when storing a record of a batch raises, the records after it are still
   processed and stored, the records stored before it stay stored, and the result
   names the failure in its errors together with the offending record. *)
C18_FailureIsolation ==
    [][\A c \in FailCalls :
         StepIsCall(c) =>
            LET result == StoreLineageData(nodes, edges, c.data, c.source, now').result
            IN /\ FailuresIsolated(c)
               /\ (FailedNodes(c) # {} \/ FailedEdges(c) # {}) =>
                     /\ "errors" \in DOMAIN result
                     /\ {e.record : e \in Range(result.errors)} =
                           {c.data.nodes[i] : i \in FailedNodes(c)}
                           \cup {c.data.edges[i] : i \in FailedEdges(c)}]_vars

----------------------------------------------------------------------------
(* C19: whatever the object reference and the depth or max_hops parameter (unknown
   or missing name, depth that is no number or out of range), a traversal, impact or
   path request is answered with a well-formed, possibly empty result and never
   with an error response. *)
C19_QueriesNeverThrow ==
    /\ trav.pc # "aborted"
    /\ trav.pc = "done" =>
          /\ trav.status = 200
          /\ trav.op \in {"impact", "object"} =>
                {"out_nodes", "all_edge_rows"} \subseteq DOMAIN trav
          /\ trav.op = "path" => "paths" \in DOMAIN trav

\* the store failed while the answered request was served
StoreFailed(t) == "store" \in DOMAIN t

\* the answer tells the caller of a failure: by its status or by an error message
FailureVisible(t) == t.status # 200 \/ t.error # ""

(* C20: when the store is unreachable or a query fails during a traversal or impact
   request, the answer reports a failure; it is never a successful empty result that
   reads like 'no lineage'. *)
C20_StorageFailureVisible ==
    (trav.pc = "done" /\ StoreFailed(trav)) => FailureVisible(trav)

----------------------------------------------------------------------------
\* the rows and ids a traversal has accumulated so far
Accumulated(t) == Len(t.all_edge_rows) + Cardinality(t.all_node_ids)

(* C21: every traversal is bounded by a maximum node/edge count besides its depth:
   a traversal in progress carries that bound and has accumulated no more than it,
   and every answer says in its field truncated whether the bound ended the
   traversal early. *)
C21_CircuitBreaker ==
    /\ trav.pc \in {"impact", "object"} =>
          /\ "max_count" \in DOMAIN trav
          /\ Accumulated(trav) <= trav.max_count
    /\ (trav.pc = "done" /\ trav.op \in {"impact", "object"}) =>
          /\ "truncated" \in DOMAIN trav
          /\ trav.truncated \in BOOLEAN

----------------------------------------------------------------------------
\* the calls that ran side by side
ConcX == [data |-> ing.calls[1].data, source |-> ing.calls[1].source]
ConcY == [data |-> ing.calls[2].data, source |-> ing.calls[2].source]

\* the tables hold what call x and then call y leave, run one after the other from
\* the tables the calls found, timestamps apart
SameAsSerial(x, y) ==
    LET serial == AfterBoth(ing.base_nodes, ing.base_edges, x, y, now)
    IN /\ NodesSansTime(nodes) = NodesSansTime(serial.nodes)
       /\ EdgesSansObserved(edges) = EdgesSansObserved(serial.edges)

(* C22: when two calls of store_lineage_data with different batches have run side by
   side, their statements interleaved in any way, the tables hold the same nodes and
   edges (confidence, origin and metadata included; timestamps excepted) as after
   running the two calls one after the other, no object_id is stored twice and no
   triple that was not stored twice before is stored twice. *)
C22_ConcurrentIngestionConverges ==
    BothReturned =>
       /\ SameAsSerial(ConcX, ConcY) \/ SameAsSerial(ConcY, ConcX)
       /\ \A n1 \in nodes, n2 \in nodes : n1.object_id = n2.object_id => n1 = n2
       /\ \A t \in Triples(edges) :
             TripleCount(ing.base_edges, t) <= 1 => TripleCount(edges, t) <= 1

----------------------------------------------------------------------------
(* C23: no ingestion (SQL parse, query history or manifest) removes a node or an
   edge: the set of node object_ids and the set of edge triples only grow, every edge
   row stays as it was stored, and last_seen_at of a node never moves backwards. *)
C23_MonotoneGrowth ==
    [][/\ NodeIds(nodes) \subseteq NodeIds(nodes')
       /\ Triples(edges) \subseteq Triples(edges')
       /\ edges \sqsubseteq edges'
       /\ \A n \in nodes, m \in nodes' :
             n.object_id = m.object_id => m.last_seen_ts >= n.last_seen_ts
       /\ \A r \in Rows(edges') : CopiesIn(r, edges') > CopiesIn(r, edges) =>
             \A q \in Rows(edges) : r.observed_ts >= q.observed_ts]_vars

(* Witness of C23: a node stored at one time has been seen again later, and a
   triple stored at one time has been observed again later. *)
SeenAgainLater ==
    /\ \E n \in nodes : n.first_seen_ts = 0 /\ n.last_seen_ts = MaxClock
    /\ \E r1 \in Rows(edges), r2 \in Rows(edges) :
          Triple(r1) = Triple(r2) /\ r1.observed_ts < r2.observed_ts

----------------------------------------------------------------------------
\* the key-wise merge of mappings: incoming keys overwrite, the other keys stay
KeyWiseMerge(stored, incoming) ==
    [k \in DOMAIN stored \cup DOMAIN incoming |->
        IF k \in DOMAIN incoming THEN incoming[k] ELSE stored[k]]

\* the stored metadata of object id merged key-wise with the metadata of the records
\* i.. of call c that name id and whose statement does not raise
RECURSIVE MergedMetadata(_, _, _, _)
MergedMetadata(stored, c, id, i) ==
    IF i > Len(c.data.nodes) THEN stored
    ELSE LET row == NodeSourceRow(c.data, c.data.nodes[i], c.source, 0)
         IN MergedMetadata(IF row.object_id = id /\ ~NodeStmtFails(row)
                           THEN KeyWiseMerge(stored, row.metadata) ELSE stored,
                           c, id, i + 1)

(* C24: when a stored node is upserted with new metadata, every incoming key
   overwrites the stored value of that key and every stored key that the incoming
   metadata does not have keeps its value. *)
C24_KeyWiseMetadataMerge ==
    [][\A c \in Calls :
         StepIsCall(c) =>
            \A n \in nodes, m \in nodes' :
               n.object_id = m.object_id =>
                  m.metadata = MergedMetadata(n.metadata, c, n.object_id, 1)]_vars

(* Witness of C24: a node stored from the query history, with the query's id, has
   been upserted by a parse result, whose metadata has no query id. *)
QueryIdOverwritten ==
    \E n \in nodes : /\ n.lineage_source = "QUERY_HISTORY"
                     /\ n.metadata.extraction_method = "sqlglot"
                     /\ n.metadata.query_id = None

----------------------------------------------------------------------------
\* the call that lineage_dbt_upload makes for manifest m
ManifestCall(m) == [data |-> ProcessManifestJson(m), source |-> "DBT_ARTIFACTS"]

\* a dependency edge src -> tgt as a manifest gives it: kind DEPENDENCY, origin
\* MANIFEST (in the names of the code), confidence 1.0
IsDependencyEdge(r, src, tgt) ==
    /\ r.src_object_id = src
    /\ r.tgt_object_id = tgt
    /\ r.edge_kind = "DBT_DEPENDENCY"
    /\ r.lineage_source = "DBT_ARTIFACTS"
    /\ r.confidence_score = ConfidenceOne

DependencyEdgeCount(tbl, src, tgt) ==
    LET Dep(r) == IsDependencyEdge(r, src, tgt) IN CountWhere(tbl, Dep)

(* C25: after a manifest is ingested, for every record of the manifest and every
   entry d of its depends_on there is exactly one DEPENDENCY edge from d to the
   record's node, with origin MANIFEST and confidence 1.0, and d and the record's
   node are both stored nodes, also when the dependency or the record is no model. *)
C25_ManifestIngestion ==
    [][\A m \in Manifests :
         StepIsCall(ManifestCall(m)) =>
            \A i \in DOMAIN m : \A j \in DOMAIN m[i].depends_on :
               LET d == m[i].depends_on[j]
               IN /\ d \in NodeIds(nodes')
                  /\ \E t \in NodeIds(nodes') : DependencyEdgeCount(edges', d, t) = 1]_vars

----------------------------------------------------------------------------
Min2(a, b) == IF a <= b THEN a ELSE b

\* the ids a recursive query expanded at level k: the ids its rows of that level
\* were fetched for
ExpandedAt(rows, dir, k) ==
    {IF dir = "upstream" THEN r.tgt_object_id ELSE r.src_object_id :
        r \in {x \in Rows(rows) : x.level = k}}

\* the levels and the ids of the rows of a recursive query
LevelsOf(rows) == {r.level : r \in Rows(rows)}
IdsOf(rows) == {r.src_object_id : r \in Rows(rows)} \cup {r.tgt_object_id : r \in Rows(rows)}

\* no id is expanded at two levels, and there are no more levels than max_depth or
\* than ids
ExpandedOnce(rows, dir, depth) ==
    /\ \A k1 \in LevelsOf(rows), k2 \in LevelsOf(rows) :
          k1 # k2 => ExpandedAt(rows, dir, k1) \cap ExpandedAt(rows, dir, k2) = {}
    /\ \A k \in LevelsOf(rows) : k <= Min2(depth, Cardinality(IdsOf(rows)))

(* C26: no id is expanded twice during a traversal: the frontier a loop moves to is
   disjoint from the ids visited before, the ids a recursive query expands at
   different levels are disjoint, and a traversal with max_depth >= 1 has at most
   min(max_depth, number of nodes it reached) expansion levels. *)
C26_NoReExpansion ==
    [][/\ (/\ trav.pc \in {"impact", "object"}
           /\ trav'.pc = trav.pc
           /\ trav'.current_ids # trav.current_ids)
          => trav'.current_ids \cap trav.all_node_ids = {}
       /\ (trav'.pc = "impact" /\ trav'.depth >= 1)
          => trav'.i <= Min2(trav'.depth, Cardinality(trav'.all_node_ids))
       /\ (trav'.pc = "object" /\ trav'.depth >= 1 /\ ~trav'.over)
          => trav'.i + 1 <= Min2(trav'.depth, Cardinality(trav'.all_node_ids))
       /\ (trav'.pc = "done" /\ trav'.op = "enhanced" /\ trav'.depth >= 1)
          => /\ ExpandedOnce(trav'.upstream_edges, "upstream", trav'.depth)
             /\ ExpandedOnce(trav'.downstream_edges, "downstream", trav'.depth)]_vars

----------------------------------------------------------------------------
(* C27: in every traversal result, at every depth, the source and the target of each
   returned edge are object_ids of returned nodes. *)
C27_ResultClosure ==
    (trav.pc = "done" /\ trav.op \in {"impact", "object"}) =>
       \A r \in Range(trav.all_edge_rows) :
          /\ r.src_object_id \in NodeIds(trav.out_nodes)
          /\ r.tgt_object_id \in NodeIds(trav.out_nodes)

----------------------------------------------------------------------------
\* the rows of the column lineage graph the queries consider
Confident(tbl) == {r \in tbl : r.confidence_score >= ConfidenceThreshold}

ClgIds(tbl) == {r.source_fqn : r \in tbl} \cup {r.target_fqn : r \in tbl}

\* the acyclic chains of k edges that lead into id t
UpstreamChains(tbl, t, k) ==
    {w \in UNION {WalksTo(tbl, s, t, k) : s \in ClgIds(tbl)} : IsSimple(w)}

(* C28: an upstream query with depth d >= 2 returns more than the direct parents:
   the rows of the query that build_lineage_query builds for direction = upstream
   hold, for every k in 2..d for which an acyclic upstream chain of k edges leads
   into the target, a row of depth_level k for the first edge of each such chain. *)
C28_MultiHopUpstream ==
    (trav.pc = "done" /\ trav.op = "upstream_query") =>
       \A k \in 2..trav.depth :
          \A w \in UpstreamChains(Confident(clg), trav.name, k) :
             \E r \in trav.rows : /\ r.depth_level = k
                                  /\ r.source_fqn = w[1]
                                  /\ r.target_fqn = w[2]

----------------------------------------------------------------------------
\* the result dict store_lineage_data returns for call c on the tables as they are
ResultOf(c) == StoreLineageData(nodes, edges, c.data, c.source, now').result

\* some record of call c fails
SomeFailed(c) == FailedNodes(c) # {} \/ FailedEdges(c) # {}

(* C29: the ingest result accounts for every record of the batch once: it counts the
   node records stored and those skipped or failed, which add up to the node records
   of the batch, likewise for the edges, and the result of a batch in which a record
   failed differs from the result of every batch in which all records succeeded. *)
C29_IngestAccounting ==
    [][\A c \in FailCalls :
         StepIsCall(c) =>
            /\ {"nodes_failed", "edges_failed"} \subseteq DOMAIN ResultOf(c)
            /\ ResultOf(c).nodes_stored + ResultOf(c).nodes_failed = Len(c.data.nodes)
            /\ ResultOf(c).edges_stored + ResultOf(c).edges_failed = Len(c.data.edges)
            /\ SomeFailed(c) =>
                  \A ok \in FailCalls : ~SomeFailed(ok) => ResultOf(ok) # ResultOf(c)]_vars

----------------------------------------------------------------------------
\* the object_ids that the node records of call c name, the records whose statement
\* raises apart
NamedBy(c) ==
    {ObjectIdOf(c.data.nodes[i]) : i \in DOMAIN c.data.nodes \ FailedNodes(c)}

\* row m is row n but for last_seen_ts and metadata
SameButSeenAndMetadata(n, m) ==
    m = [n EXCEPT !.last_seen_ts = m.last_seen_ts, !.metadata = m.metadata]

(* C30: observing a stored node again changes only its last_seen_at, to a time not
   earlier than the stored one, and its metadata: its object_id, names, type, column
   and first_seen_at stay as they were when the node was created, every node the
   batch does not name is unchanged, and so is every edge when the batch holds only
   node records. *)
C30_BoundedUpsert ==
    [][\A c \in Calls :
         StepIsCall(c) =>
            /\ \A n \in nodes :
                  \E m \in nodes' : /\ SameButSeenAndMetadata(n, m)
                                    /\ m.last_seen_ts >= n.last_seen_ts
            /\ \A n \in nodes : n.object_id \notin NamedBy(c) => n \in nodes'
            /\ c.data.edges = <<>> => edges' = edges]_vars

(* Witness of C30: a node has been observed again, later and by another origin than
   the one that created it, while another node and an edge are stored. *)
UpsertedBesideOthers ==
    /\ \E n \in nodes, o \in nodes :
          /\ n.last_seen_ts > n.first_seen_ts
          /\ n.metadata.extraction_method # "sqlglot"
          /\ n.lineage_source = "SQLGLOT"
          /\ o.last_seen_ts = o.first_seen_ts
    /\ edges # EmptyBag

====
